---- MODULE Spec2Model ----
(***************************************************************************)
(* DeZero teaching steps: the Variable / Function objects of step09.py     *)
(* (single-input engine with Square and Exp) and of step11.py (list-based  *)
(* Function.__call__ with Add), and the loop of Variable.backward.         *)
(*                                                                         *)
(* Python objects are records kept in two heaps; an object's identity is   *)
(* its index in the heap, 0 stands for the reference None.  A record's     *)
(* fields are exactly the attributes the code assigns to the object.       *)
(*                                                                         *)
(* Payloads are 0-dimensional.  A number is kept exactly as m * e^k, so    *)
(* that x**2, np.exp(x) and the products of the backward rules are         *)
(* computed without rounding.                                              *)
(***************************************************************************)
EXTENDS Integers, Sequences, FiniteSets, TLC

VARIABLES
    variables,   \* heap of Variable objects
    functions,   \* heap of Function objects
    pc,          \* "idle", or the position of the current Variable.backward call
    self,        \* the Variable backward() was called on (0: no call yet)
    funcs,       \* the list `funcs` of Variable.backward
    f,           \* the Function the loop popped (its local f)
    op,          \* the last operation the program ran
    exc,         \* the exception it raised, "None" if it returned
    done,        \* history: Functions whose backward rule ran in this call
    revisit,     \* history: some backward rule ran twice in this call
    seeded,      \* history: self.grad was None when backward() was called
    grad0,       \* history: every Variable's grad when backward() was called
    passed       \* history: per Variable, the inputs passed to the call making it

vars == <<variables, functions, pc, self, funcs, f, op, exc, done, revisit,
          seeded, grad0, passed>>

-----------------------------------------------------------------------------
(* Bounds of the model *)

MaxVariables == 3

MaxFunctions == 2

\* data of the ndarray leaves the program constructs
LeafValues == {2, 3}

-----------------------------------------------------------------------------
(* Numbers: m * e^k, m and k integers; zero is kept as 0 * e^0 *)

Num(m, k) == [m |-> m, k |-> IF m = 0 THEN 0 ELSE k]

Int2Num(n) == Num(n, 0)

Mul(a, b) == Num(a.m * b.m, a.k + b.k)

\* a + b, defined where both have the same power of e
Plus(a, b) == Num(a.m + b.m, IF a.m = 0 THEN b.k ELSE a.k)

(* Python values: an np.ndarray, a NumPy scalar (what arithmetic on 0-d     *)
(* arrays returns), a plain Python number, or None                          *)

NDArray(n) == [type |-> "ndarray", val |-> n]

Float64(n) == [type |-> "float64", val |-> n]

PyFloat(n) == [type |-> "float", val |-> n]

None == [type |-> "NoneType", val |-> Int2Num(0)]

IsNone(x) == x.type = "NoneType"

\* np.isscalar(x)
IsScalar(x) == x.type \in {"float64", "float"}

\* what a caller may hand to Variable(...)
Payloads == {NDArray(Int2Num(n)) : n \in LeafValues}
              \cup {PyFloat(Int2Num(3)), None}

-----------------------------------------------------------------------------
(* step09.py / step11.py: Variable.__init__, as_array, np.ones_like *)

\* a constructor that tests nothing, as the Variable of step07.py
VariableInitNoCheck(data) == FALSE

\* the isinstance test of Variable.__init__: TRUE when it raises TypeError
VariableInitRaises(data) ==
    (~IsNone(data)) /\ data.type # "ndarray"

\* the object Variable.__init__ leaves behind
VariableInit(data) == [data |-> data, grad |-> None, creator |-> 0]

as_array(x) == IF IsScalar(x) THEN NDArray(x.val) ELSE x

\* np.ones_like(data): a 0-d array holding 1 (of dtype object for None)
ones_like(data) == NDArray(Int2Num(1))

-----------------------------------------------------------------------------
(* step09.py: the kernels Square and Exp.  Arithmetic on None raises       *)
(* TypeError.                                                               *)

\* x ** 2
SquareForward(x) == Float64(Mul(x.val, x.val))

\* np.exp(x), for x an integer
ExpForward(x) == Float64(Num(1, x.val.m))

Forward(kind, x) == IF kind = "Square" THEN SquareForward(x) ELSE ExpForward(x)

ForwardRaises(kind, x) == IsNone(x)

\* the values the number representation can take np.exp of
Representable(kind, x) == kind = "Exp" => (IsNone(x) \/ x.val.k = 0)

\* gx = x * gy: the rule of Square with the factor 2 lost
SquareBackwardNoFactor(x, gy) == Float64(Mul(x.val, gy.val))

\* gx = 2 * x * gy, x the data of the recorded input
SquareBackward(x, gy) == Float64(Mul(Int2Num(2), Mul(x.val, gy.val)))

\* gx = np.exp(x) * gy
ExpBackward(x, gy) == Float64(Mul(ExpForward(x).val, gy.val))

Backward(kind, x, gy) ==
    IF kind = "Square" THEN SquareBackward(x, gy) ELSE ExpBackward(x, gy)

BackwardRaises(kind, x, gy) == IsNone(x) \/ IsNone(gy)

-----------------------------------------------------------------------------
(* The program *)

Init ==
    /\ variables = <<>>
    /\ functions = <<>>
    /\ pc = "idle"
    /\ self = 0
    /\ funcs = <<>>
    /\ f = 0
    /\ op = "none"
    /\ exc = "None"
    /\ done = {}
    /\ revisit = FALSE
    /\ seeded = FALSE
    /\ grad0 = <<>>
    /\ passed = <<>>

\* a backward() call is under way
Running == pc \in {"loop", "body"}

\* the frame of a finished backward() call is gone
NoCall ==
    /\ pc' = "idle"
    /\ self' = 0
    /\ funcs' = <<>>
    /\ f' = 0
    /\ done' = {}
    /\ revisit' = FALSE
    /\ seeded' = FALSE
    /\ grad0' = <<>>

\* Variable(data)
NewVariable(data) ==
    /\ ~Running
    /\ Len(variables) < MaxVariables
    /\ op' = "Variable"
    /\ IF VariableInitRaises(data)
         THEN /\ exc' = "TypeError"
              /\ UNCHANGED <<variables, passed>>
         ELSE /\ exc' = "None"
              /\ variables' = Append(variables, VariableInit(data))
              /\ passed' = Append(passed, <<>>)
    /\ UNCHANGED functions
    /\ NoCall

\* Square() or Exp(): Function defines no __init__, the object has no
\* attribute until it is called
NewFunction(kind) ==
    /\ ~Running
    /\ Len(functions) < MaxFunctions
    /\ op' = "Function"
    /\ exc' = "None"
    /\ functions' = Append(functions, [kind |-> kind])
    /\ UNCHANGED <<variables, passed>>
    /\ NoCall

\* step09.py Function.__call__: f(input)
Call(fn, input) ==
    /\ ~Running
    /\ Len(variables) < MaxVariables
    /\ Representable(functions[fn].kind, variables[input].data)
    /\ op' = "call"
    /\ LET x == variables[input].data
           kind == functions[fn].kind
           y == as_array(Forward(kind, x))
           output == Len(variables) + 1
       IN  IF ForwardRaises(kind, x) \/ VariableInitRaises(y)
             THEN /\ exc' = "TypeError"
                  /\ UNCHANGED <<variables, functions, passed>>
             ELSE /\ exc' = "None"
                  /\ variables' =
                       Append(variables, [VariableInit(y) EXCEPT !.creator = fn])
                  /\ functions' =
                       [functions EXCEPT ![fn] =
                          [kind |-> kind, input |-> input, output |-> output]]
                  /\ passed' = Append(passed, <<input>>)
    /\ NoCall

\* the grads of all Variables
Grads == [v \in 1..Len(variables) |-> variables[v].grad]

\* step09.py Variable.backward, lines 23-26: seed the grad, funcs = [creator]
BackwardBegin(v) ==
    /\ ~Running
    /\ op' = "backward"
    /\ exc' = "None"
    /\ pc' = "loop"
    /\ self' = v
    /\ variables' =
         IF IsNone(variables[v].grad)
           THEN [variables EXCEPT ![v].grad = ones_like(variables[v].data)]
           ELSE variables
    /\ funcs' = <<variables[v].creator>>
    /\ f' = 0
    /\ done' = {}
    /\ revisit' = FALSE
    /\ seeded' = IsNone(variables[v].grad)
    /\ grad0' = Grads
    /\ UNCHANGED <<functions, passed>>

\* a loop that appends nothing
PushNothing(list, x) == list

\* the worklist after the body of the loop: the creator of x is appended
\* when x has one
Push(list, x) ==
    IF variables[x].creator # 0 THEN Append(list, variables[x].creator) ELSE list

\* step09.py Variable.backward, lines 27-28: `while funcs` finds the list
\* non-empty, f = funcs.pop() takes its last item
BackwardPop ==
    /\ pc = "loop"
    /\ f' = funcs[Len(funcs)]
    /\ funcs' = SubSeq(funcs, 1, Len(funcs) - 1)
    /\ pc' = "body"
    /\ UNCHANGED <<variables, functions, self, op, exc, done, revisit, seeded,
                   grad0, passed>>

\* step09.py Variable.backward, lines 29-33: the body of the loop, and the
\* return when `while funcs` finds the list empty after it
BackwardBody ==
    /\ pc = "body"
    /\ IF f = 0
         THEN \* None has no attribute 'input'
              /\ pc' = "raised"
              /\ exc' = "AttributeError"
              /\ UNCHANGED <<variables, funcs, done, revisit>>
         ELSE LET x == functions[f].input
                  y == functions[f].output
                  kind == functions[f].kind
                  gy == variables[y].grad
              IN  /\ done' = done \cup {f}
                  /\ revisit' = (revisit \/ f \in done)
                  /\ IF BackwardRaises(kind, variables[x].data, gy)
                       THEN /\ pc' = "raised"
                            /\ exc' = "TypeError"
                            /\ UNCHANGED <<variables, funcs>>
                       ELSE /\ variables' =
                                 [variables EXCEPT ![x].grad =
                                    Backward(kind, variables[x].data, gy)]
                            /\ funcs' = Push(funcs, x)
                            /\ pc' = IF Push(funcs, x) = <<>>
                                       THEN "returned" ELSE "loop"
                            /\ exc' = "None"
    /\ UNCHANGED <<functions, self, f, op, seeded, grad0, passed>>

Kinds == {"Square", "Exp"}

Next ==
    \/ \E data \in Payloads : NewVariable(data)
    \/ \E kind \in Kinds : NewFunction(kind)
    \/ \E fn \in 1..Len(functions), input \in 1..Len(variables) :
         Call(fn, input)
    \/ \E v \in 1..Len(variables) : BackwardBegin(v)
    \/ BackwardPop
    \/ BackwardBody

Spec == Init /\ [][Next]_vars

-----------------------------------------------------------------------------
(* step11.py: Function.__call__ over a list of inputs, the kernel Add, and *)
(* Variable.backward as that file has it                                   *)

\* Add.forward: x0, x1 = xs; y = x0 + x1; return (y,)
AddForward(xs) == <<Float64(Plus(xs[1].val, xs[2].val))>>

\* the exception of Add.forward, "None" when it returns: the unpacking
\* x0, x1 = xs wants two items, None + x is a TypeError
AddForwardExc(xs) ==
    IF Len(xs) # 2 THEN "ValueError"
    ELSE IF IsNone(xs[1]) \/ IsNone(xs[2]) THEN "TypeError"
    ELSE "None"

\* Add()
NewAdd ==
    /\ ~Running
    /\ Len(functions) < MaxFunctions
    /\ op' = "Function"
    /\ exc' = "None"
    /\ functions' = Append(functions, [kind |-> "Add"])
    /\ UNCHANGED <<variables, passed>>
    /\ NoCall

\* step11.py Function.__call__: f(inputs), Add.forward returning one output
Call11(fn, inputs) ==
    /\ ~Running
    /\ Len(variables) < MaxVariables
    /\ op' = "call"
    /\ LET xs == [i \in 1..Len(inputs) |-> variables[inputs[i]].data]
           ys == AddForward(xs)
           output == Len(variables) + 1
       IN  IF AddForwardExc(xs) # "None"
             THEN /\ exc' = AddForwardExc(xs)
                  /\ UNCHANGED <<variables, functions, passed>>
             ELSE IF VariableInitRaises(as_array(ys[1]))
             THEN /\ exc' = "TypeError"
                  /\ UNCHANGED <<variables, functions, passed>>
             ELSE /\ exc' = "None"
                  /\ variables' =
                       Append(variables,
                              [VariableInit(as_array(ys[1])) EXCEPT !.creator = fn])
                  /\ functions' =
                       [functions EXCEPT ![fn] =
                          [kind |-> "Add", inputs |-> inputs,
                           outputs |-> <<output>>]]
                  /\ passed' = Append(passed, inputs)
    /\ NoCall

\* step11.py Variable.backward, lines 72-75: the same statements as step09.py
BackwardBegin11(v) == BackwardBegin(v)

\* step11.py Variable.backward, lines 76-77: the same statements as
\* step09.py
BackwardPop11 == BackwardPop

\* step11.py Variable.backward, lines 78-84: the body of the loop.
\* x, y = f.inputs, f.outputs binds two lists, and y.grad, evaluated for the
\* call f.backward(y.grad), is an attribute a list does not have
BackwardBody11 ==
    /\ pc = "body"
    /\ pc' = "raised"
    /\ exc' = IF f = 0
                THEN "AttributeError"  \* None has no attribute 'inputs'
                ELSE "AttributeError"  \* a list has no attribute 'grad'
    /\ UNCHANGED <<variables, functions, self, funcs, f, op, done, revisit,
                   seeded, grad0, passed>>

\* the lists of inputs a caller passes
InputLists ==
    {<<a>> : a \in 1..Len(variables)}
      \cup {<<a, b>> : a \in 1..Len(variables), b \in 1..Len(variables)}

Next11 ==
    \/ \E data \in Payloads : NewVariable(data)
    \/ NewAdd
    \/ \E fn \in 1..Len(functions), inputs \in InputLists :
         Call11(fn, inputs)
    \/ \E v \in 1..Len(variables) : BackwardBegin11(v)
    \/ BackwardPop11
    \/ BackwardBody11

Spec11 == Init /\ [][Next11]_vars

\* the loop of backward() runs on: nothing else of the single-threaded
\* program can delay its next turn
FairSpec == Spec /\ WF_vars(BackwardPop) /\ WF_vars(BackwardBody)

-----------------------------------------------------------------------------
(* The graph as the objects record it *)

Creator(v) == variables[v].creator

IsLeaf(v) == Creator(v) = 0

HasAttr(obj, name) == name \in DOMAIN obj

\* the input recorded by the creator of v (step09.py)
Pred(v) == functions[Creator(v)].input

\* the Variables met from v along creator and input, in at most n steps
RECURSIVE Walk(_, _)
Walk(v, n) ==
    IF n = 0 \/ IsLeaf(v) THEN {v} ELSE {v} \cup Walk(Pred(v), n - 1)

Reach(v) == Walk(v, Len(variables))

\* every creator on the way from v to the leaf records the Variable it is
\* the creator of as its output: f1, ..., fn is a chain from the leaf to v
RECURSIVE IsChain(_, _)
IsChain(v, n) ==
    \/ IsLeaf(v)
    \/ /\ n > 0
       /\ functions[Creator(v)].output = v
       /\ IsChain(Pred(v), n - 1)

RECURSIVE LeafOf(_, _)
LeafOf(v, n) == IF n = 0 \/ IsLeaf(v) THEN v ELSE LeafOf(Pred(v), n - 1)

\* the derivative of the kernel of f at its input, from calculus:
\* d(x^2)/dx = 2x, d(e^x)/dx = e^x, which is the value f returned
Derivative(fn) ==
    IF functions[fn].kind = "Square"
      THEN Mul(Int2Num(2), variables[functions[fn].input].data.val)
      ELSE variables[functions[fn].output].data.val

\* the chain rule from v down to the leaf, g the gradient at v
RECURSIVE ChainRule(_, _, _)
ChainRule(v, g, n) ==
    IF n = 0 \/ IsLeaf(v) THEN g
    ELSE ChainRule(Pred(v), Mul(Derivative(Creator(v)), g), n - 1)

Ended == pc \in {"returned", "raised"}

-----------------------------------------------------------------------------
(* C5 *)

\* C5: when backward() has returned, every leaf met from the starting
\* Variable along creator and input links has a grad, and every Variable not
\* met that way has the grad it had before the call (None stays None)
C5_GradientCoverage ==
    pc = "returned" =>
      \A v \in 1..Len(variables) :
        /\ (v \in Reach(self) /\ IsLeaf(v)) => ~IsNone(variables[v].grad)
        /\ v \notin Reach(self) => variables[v].grad = grad0[v]

\* backward() returned from a Variable two calls away from its leaf, whose
\* grad was None before, while a third Variable outside the walk has none
C5_Witness ==
    /\ pc = "returned"
    /\ \E x \in Reach(self) :
         /\ x # self
         /\ IsLeaf(x)
         /\ IsNone(grad0[x])
         /\ ~IsNone(variables[x].grad)
    /\ \E u \in 1..Len(variables) :
         u \notin Reach(self) /\ IsNone(variables[u].grad)

-----------------------------------------------------------------------------
(* C7 *)

-----------------------------------------------------------------------------
(* C4 *)

\* Variable(data) returned a new Variable holding data itself, with no
\* grad and no creator
Constructed(data) ==
    /\ exc' = "None"
    /\ Len(variables') = Len(variables) + 1
    /\ SubSeq(variables', 1, Len(variables)) = variables
    /\ variables'[Len(variables')].data = data
    /\ IsNone(variables'[Len(variables')].grad)
    /\ variables'[Len(variables')].creator = 0

\* Variable(data) raised TypeError and made no Variable
Refused == exc' = "TypeError" /\ variables' = variables

-----------------------------------------------------------------------------
(* C1, under Spec11 *)

\* C1: for y = add(x, x) over one leaf x, once y.backward() is over x.grad
\* is 2, the sum of the two contributions
C1_FanOutAccumulation ==
    \A x \in 1..Len(variables) :
      ( /\ Ended
        /\ seeded
        /\ ~IsLeaf(self)
        /\ functions[Creator(self)].outputs = <<self>>
        /\ functions[Creator(self)].inputs = <<x, x>>
        /\ IsLeaf(x)
        /\ IsNone(grad0[x]) )
      => /\ ~IsNone(variables[x].grad)
         /\ variables[x].grad.val = Int2Num(2)

-----------------------------------------------------------------------------
(* C2, under FairSpec *)

\* C2: a backward() call that has begun comes to an end (the claim asks for
\* more: that it ends with an empty worklist, by returning)
C2_BackwardTerminates == Running ~> Ended

-----------------------------------------------------------------------------
(* C3 *)

\* C3: backward() on a fresh leaf (no creator, no grad) ends without an
\* error, the leaf's grad is ones like its data, no backward rule has run
\* and no other Variable has changed
C3_LeafNoOp ==
    (Ended /\ IsLeaf(self) /\ seeded) =>
      /\ pc = "returned"
      /\ exc = "None"
      /\ variables[self].grad = ones_like(variables[self].data)
      /\ done = {}
      /\ \A v \in 1..Len(variables) : v # self => variables[v].grad = grad0[v]

-----------------------------------------------------------------------------
(* C6, under Spec11 *)

\* C6: every leaf has generation 0, and every input a called Function
\* records has a generation below that of every output it records, each
\* output having the largest generation of the inputs plus one
C6_GenerationInvariant ==
    /\ \A v \in 1..Len(variables) :
         /\ HasAttr(variables[v], "generation")
         /\ IsLeaf(v) => variables[v].generation = 0
    /\ \A fn \in 1..Len(functions) :
         HasAttr(functions[fn], "inputs") =>
           \A o \in 1..Len(functions[fn].outputs) :
             LET out == variables[functions[fn].outputs[o]]
             IN  /\ \A i \in 1..Len(functions[fn].inputs) :
                       variables[functions[fn].inputs[i]].generation
                         < out.generation
                 /\ \E i \in 1..Len(functions[fn].inputs) :
                       out.generation =
                         variables[functions[fn].inputs[i]].generation + 1

-----------------------------------------------------------------------------
(* C8 *)

\* C8: within one backward() call no Function's backward rule runs twice
C8_NoRevisit == ~revisit

-----------------------------------------------------------------------------
(* C9 *)

\* the called Functions met from v along creator and input
Producers(v) == {Creator(u) : u \in {w \in Reach(v) : ~IsLeaf(w)}}

-----------------------------------------------------------------------------
(* C10 *)

\* C10: a Variable a caller constructed has no creator; a Variable a call
\* returned has the called Function as creator, and that Function records
\* this very Variable as its output and the Variable passed as its input
C10_GraphLinkage ==
    \A v \in 1..Len(variables) :
      IF passed[v] = <<>>
        THEN IsLeaf(v)
        ELSE /\ ~IsLeaf(v)
             /\ functions[Creator(v)].output = v
             /\ functions[Creator(v)].input = passed[v][1]

====
